---- MODULE Spec2Model ----
(***************************************************************************)
(* Model of update_readme.py: the size formatter format_size, the badge    *)
(* substituter update_badge and the command-line run that rewrites         *)
(* README.md.                                                              *)
(*                                                                         *)
(* Text is modelled as sequences of strings.  A command-line argument is   *)
(* a sequence of one-character strings.  A document is a sequence of       *)
(* chunks, each chunk a piece of text that the regular expression of       *)
(* update_badge treats as a unit: a badge URL prefix, the "-blue" suffix,  *)
(* a line break character, or other text.                                  *)
(***************************************************************************)
EXTENDS Integers, Sequences, FiniteSets, TLC

(***************************************************************************)
(* int(): src/update_readme.py line 5                                      *)
(***************************************************************************)
DigitChars == <<"0", "1", "2", "3", "4", "5", "6", "7", "8", "9">>

IsDigit(c) == \E i \in 1..10 : DigitChars[i] = c

DigitValue(c) == (CHOOSE i \in 1..10 : DigitChars[i] = c) - 1

IsSpace(c) == c \in {" ", "\t", "\n", "\r"}

RECURSIVE lstrip_space(_)
lstrip_space(s) ==
    IF s # <<>> /\ IsSpace(Head(s)) THEN lstrip_space(Tail(s)) ELSE s

RECURSIVE rstrip(_, _)
\* str.rstrip(chars): drop trailing characters that belong to chars
rstrip(s, chars) ==
    IF s # <<>> /\ s[Len(s)] \in chars
    THEN rstrip(SubSeq(s, 1, Len(s) - 1), chars)
    ELSE s

strip_space(s) == rstrip(lstrip_space(s), {" ", "\t", "\n", "\r"})

HasSign(s) == s # <<>> /\ Head(s) \in {"+", "-"}

Unsigned(s) == IF HasSign(s) THEN Tail(s) ELSE s

\* digits, with single underscores allowed between digits
IsDigitString(s) ==
    /\ s # <<>>
    /\ IsDigit(s[1])
    /\ IsDigit(s[Len(s)])
    /\ \A i \in 1..Len(s) :
          \/ IsDigit(s[i])
          \/ s[i] = "_" /\ i > 1 /\ IsDigit(s[i - 1])

RECURSIVE DigitsValue(_, _)
\* the value of a digit string; its underscores do not count (a character
\* that is no digit does not occur when int_ok holds)
DigitsValue(s, acc) ==
    IF s = <<>> THEN acc
    ELSE IF ~IsDigit(Head(s)) THEN DigitsValue(Tail(s), acc)
    ELSE DigitsValue(Tail(s), 10 * acc + DigitValue(Head(s)))

\* int(x) of a string raises ValueError exactly when int_ok(x) is false
int_ok(arg) == IsDigitString(Unsigned(strip_space(arg)))

int(arg) ==
    LET s == strip_space(arg)
        v == DigitsValue(Unsigned(s), 0)
    IN  IF HasSign(s) /\ Head(s) = "-" THEN 0 - v ELSE v

(***************************************************************************)
(* True division of two integers: the IEEE-754 double nearest b / d.       *)
(* Only the direction of its rounding error is needed.                     *)
(***************************************************************************)
DoubleMantissaBits == 53

RECURSIVE ExponentUp(_, _)
ExponentUp(b, d) == IF 2 * d <= b THEN 1 + ExponentUp(b, 2 * d) ELSE 0

RECURSIVE ExponentDown(_, _)
ExponentDown(b, d) == IF b >= d THEN 0 ELSE ExponentDown(2 * b, d) - 1

\* k with 2^k <= b / d < 2^(k+1), for b > 0
BinaryExponent(b, d) == IF b >= d THEN ExponentUp(b, d) ELSE ExponentDown(b, d)

RECURSIVE ShiftMod(_, _, _)
\* (x * 2^e) mod m, eight binary places at a time while that many remain
ShiftMod(x, e, m) ==
    IF e = 0 THEN x % m
    ELSE IF e >= 8 THEN ShiftMod((256 * x) % m, e - 8, m)
    ELSE ShiftMod((2 * x) % m, e - 1, m)

\* sign of float(b / d) - b / d for b > 0: the quotient is rounded to a
\* 53-bit significand, to nearest, ties to even
DivisionError(b, d) ==
    LET e    == (DoubleMantissaBits - 1) - BinaryExponent(b, d)
        rem2 == ShiftMod(b % (2 * d), e, 2 * d)
        rem  == rem2 % d
        odd  == rem2 >= d
    IN  IF rem = 0 THEN 0
        ELSE IF 2 * rem < d THEN 0 - 1
        ELSE IF 2 * rem > d THEN 1
        ELSE IF odd THEN 1 ELSE 0 - 1

(***************************************************************************)
(* f"{x:.2f}" for x = b / d, b >= 0: the number of hundredths printed.     *)
(* The double is printed correctly rounded, ties to even.  The double      *)
(* differs from b / d by less than 2^-53 relative, so it lies on the same  *)
(* side of a rounding boundary as b / d unless b / d is on the boundary.   *)
(***************************************************************************)
Hundredths(b, d) ==
    LET f == (b * 100) \div d
        r == (b * 100) % d
    IN  IF 2 * r < d THEN f
        ELSE IF 2 * r > d THEN f + 1
        ELSE IF DivisionError(b, d) > 0 THEN f + 1
        ELSE IF DivisionError(b, d) < 0 THEN f
        ELSE IF f % 2 = 0 THEN f ELSE f + 1

RECURSIVE Digits(_)
Digits(n) ==
    IF n < 10 THEN <<DigitChars[n + 1]>>
    ELSE Digits(n \div 10) \o <<DigitChars[(n % 10) + 1]>>

\* the characters of f"{b / d:.2f}"
Fixed2(b, d) ==
    LET mag == IF b < 0 THEN 0 - b ELSE b
        h   == Hundredths(mag, d)
    IN  (IF b < 0 THEN <<"-">> ELSE <<>>)
        \o Digits(h \div 100) \o <<".">>
        \o <<DigitChars[((h % 100) \div 10) + 1], DigitChars[(h % 10) + 1]>>

RECURSIVE Join(_)
Join(chars) == IF chars = <<>> THEN "" ELSE Head(chars) \o Join(Tail(chars))

Kilo == 1000

Mega == 1000 * 1000

\* format_bytes with rstrip('0.') in place of rstrip('0').rstrip('.')
format_bytes_strip_set(size_in_bytes) ==
    IF size_in_bytes < Mega
    THEN Join(rstrip(Fixed2(size_in_bytes, Kilo), {"0", "."})) \o " KB"
    ELSE Join(rstrip(Fixed2(size_in_bytes, Mega), {"0", "."})) \o " MB"

\* lines 6-14 of format_size, after the int() conversion
format_bytes(size_in_bytes) ==
    IF size_in_bytes < Mega
    THEN Join(rstrip(rstrip(Fixed2(size_in_bytes, Kilo), {"0"}), {"."})) \o " KB"
    ELSE Join(rstrip(rstrip(Fixed2(size_in_bytes, Mega), {"0"}), {"."})) \o " MB"

\* format_size of a value for which int() succeeds
format_size(size_in_bytes) == format_bytes(int(size_in_bytes))

(***************************************************************************)
(* update_badge: src/update_readme.py lines 17-20                          *)
(***************************************************************************)
\* characters that "." of a regular expression matches: every character
\* but the line feed; two of them stand for all
AnyChar == {".", "_"}

\* the texts group 1 of the pattern matches: the dots of "img.shields.io"
\* are not escaped, so each matches any character
Group1(badge_name) ==
    { "https://img" \o a \o "shields" \o b \o "io/badge/" \o badge_name \o "-" :
        a \in AnyChar, b \in AnyChar }

Group3 == "-blue"

RECURSIVE Group2End(_, _)
\* "(.*?)(-blue)" tried on s from chunk i: the index of the first "-blue"
\* that no line feed precedes, 0 when the match fails
Group2End(s, i) ==
    IF i > Len(s) THEN 0
    ELSE IF s[i] = Group3 THEN i
    ELSE IF s[i] = "\n" THEN 0
    ELSE Group2End(s, i + 1)

RECURSIVE sub_once(_, _, _)
\* re.sub(..., count=1): the leftmost match alone
sub_once(badge_name, formatted_size, content) ==
    IF content = <<>> THEN <<>>
    ELSE LET end == Group2End(Tail(content), 1)
         IN  IF Head(content) \in Group1(badge_name) /\ end > 0
             THEN <<Head(content), formatted_size>>
                  \o SubSeq(Tail(content), end, Len(content) - 1)
             ELSE <<Head(content)>>
                  \o sub_once(badge_name, formatted_size, Tail(content))

RECURSIVE sub(_, _, _)
\* re.sub(pattern, lambda match: group(1) + formatted_size + group(3), content):
\* every non-overlapping match, leftmost first
sub(badge_name, formatted_size, content) ==
    IF content = <<>> THEN <<>>
    ELSE LET end == Group2End(Tail(content), 1)
         IN  IF Head(content) \in Group1(badge_name) /\ end > 0
             THEN <<Head(content), formatted_size, Tail(content)[end]>>
                  \o sub(badge_name, formatted_size,
                         SubSeq(Tail(content), end + 1, Len(content) - 1))
             ELSE <<Head(content)>> \o sub(badge_name, formatted_size, Tail(content))

\* update_badge with format_size called from the replacement function: int()
\* runs, and raises, only when the pattern matches
update_badge_ok_lazy(content, badge_name, size_in_bytes) ==
    int_ok(size_in_bytes) \/ sub(badge_name, "", content) = content

\* update_badge raises ValueError exactly when int() does (line 18 runs
\* before the substitution, whether or not the pattern matches)
update_badge_ok(content, badge_name, size_in_bytes) == int_ok(size_in_bytes)

update_badge(content, badge_name, size_in_bytes) ==
    sub(badge_name, format_size(size_in_bytes), content)

(***************************************************************************)
(* Text-mode file access: open("README.md", "r") and open("README.md",     *)
(* "w") use universal newlines (lines 27-28 and 33-34).                    *)
(***************************************************************************)
\* file.read() of a file opened with newline="": no translation
read_text_raw(bytes) == bytes

RECURSIVE read_text(_)
\* file.read(): "\r\n" and a lone "\r" are read as "\n"
read_text(bytes) ==
    IF bytes = <<>> THEN <<>>
    ELSE IF Head(bytes) = "\r"
    THEN IF Len(bytes) > 1 /\ bytes[2] = "\n"
         THEN <<"\n">> \o read_text(Tail(Tail(bytes)))
         ELSE <<"\n">> \o read_text(Tail(bytes))
    ELSE <<Head(bytes)>> \o read_text(Tail(bytes))

RECURSIVE write_text(_, _)
\* file.write(content): every "\n" is written as os.linesep
write_text(text, linesep) ==
    IF text = <<>> THEN <<>>
    ELSE IF Head(text) = "\n" THEN linesep \o write_text(Tail(text), linesep)
    ELSE <<Head(text)>> \o write_text(Tail(text), linesep)

\* os.linesep of the platforms the script runs on
LineSeps == {<<"\n">>, <<"\r", "\n">>}

(***************************************************************************)
(* State.                                                                  *)
(*   The run of the script (lines 22-34):                                  *)
(*     argv      sys.argv, argv[1] the script name                         *)
(*     linesep   os.linesep of the platform                                *)
(*     readme    the bytes of README.md on disk                            *)
(*     before    the bytes of README.md when the current run started       *)
(*     content   the variable content                                      *)
(*     pc        the statement the run is at                               *)
(*     status    the exit status, <<>> while the process runs              *)
(*     stdout    the lines printed                                         *)
(*     error     the exception that ended the run, "" when none            *)
(*     reads     the number of times the run read README.md                *)
(*     writes    the number of times the run wrote README.md               *)
(*     parsed    the arguments the run applied int() to, in order          *)
(*     runs      the number of runs started                                *)
(*   A call of format_size: fs_size, fs_given, fs_out                      *)
(*   Calls of update_badge: ub_content, ub_name, ub_size, ub_out, ub_prev, *)
(*     ub_calls, ub_error                                                  *)
(***************************************************************************)
VARIABLES argv, linesep, readme, before, content, pc, status, stdout, error,
          reads, writes, parsed, runs,
          fs_size, fs_given, fs_out,
          ub_content, ub_name, ub_size, ub_out, ub_prev, ub_calls, ub_error

runVars == <<argv, linesep, readme, before, content, pc, status, stdout, error,
             reads, writes, parsed, runs>>

fsVars == <<fs_size, fs_given, fs_out>>

ubVars == <<ub_content, ub_name, ub_size, ub_out, ub_prev, ub_calls, ub_error>>

vars == <<runVars, fsVars, ubVars>>

(***************************************************************************)
(* Inputs                                                                  *)
(***************************************************************************)
MaxBytes == 2500

Window == 20

MaxSteps == 1200

\* byte counts: small ones, those around the KB/MB threshold, and
\* megabyte-range ones in steps of 1000
Sizes ==
    (0..MaxBytes) \cup ((Mega - Window)..(Mega + Window))
        \cup { Mega + Kilo * k : k \in 0..MaxSteps }

\* str(n) for n >= 0
str(n) == Digits(n)

BadgeNames == {"binary_size", "wasm_size"}

Prefix(badge_name) == "https://img.shields.io/badge/" \o badge_name \o "-"

\* a text that differs from the binary_size prefix in a character a dot of
\* the pattern stands for
OtherHostPrefix == "https://img_shields.io/badge/binary_size-"

OldSize == "9.99 KB"

Chunks ==
    { Prefix("binary_size"), Prefix("wasm_size"), OtherHostPrefix, Group3,
      OldSize, "\n", "\r" }

DocsOver(chunks, n) == UNION { [1..k -> chunks] : k \in 0..n }

MaxDocLen == 4

MaxReadmeLen == 4

MaxUsageLen == 2

MaxRerunLen == 3

MaxArgs == 3

\* size arguments: two that int() accepts and one it rejects
RunArgs ==
    { <<"1", "5", "0", "0">>, <<"2", "0", "0", "0", "0", "0", "0">>,
      <<"1", "2", "k">> }

\* size arguments of the update_badge calls
SizeArgs ==
    RunArgs \cup { <<" ", "7", "\n">>, <<"1", "_", "0", "0", "0">>, <<>>,
                   <<"1", ".", "5">>, <<"-", "5">> }

ScriptName == <<"update_readme.py">>

Argvs == { <<ScriptName>> \o a : a \in DocsOver(RunArgs, MaxArgs) }

UsageLine == "Usage: python update_readme.py <server binary size> <wasm file size>"

(***************************************************************************)
(* The run: src/update_readme.py lines 22-34                               *)
(***************************************************************************)
FsIdle ==
    /\ fs_size = 0 /\ fs_given = "" /\ fs_out = ""

UbIdle ==
    /\ ub_content = <<>> /\ ub_name = "" /\ ub_size = <<>> /\ ub_out = <<>>
    /\ ub_prev = <<>> /\ ub_calls = 0 /\ ub_error = ""

RunIdle ==
    /\ argv = <<>> /\ linesep = <<>> /\ readme = <<>> /\ before = <<>>
    /\ content = <<>> /\ pc = "" /\ status = <<>> /\ stdout = <<>>
    /\ error = "" /\ reads = 0 /\ writes = 0 /\ parsed = <<>> /\ runs = 0

\* the process starts: README.md holds a document of at most n chunks when
\* two size arguments are given, of at most m chunks otherwise
RunStart(n, m) ==
    /\ argv \in Argvs
    /\ linesep \in LineSeps
    /\ readme \in DocsOver(Chunks, IF Len(argv) = 3 THEN n ELSE m)
    /\ before = readme
    /\ content = <<>>
    /\ pc = "check_args"
    /\ status = <<>>
    /\ stdout = <<>>
    /\ error = ""
    /\ reads = 0
    /\ writes = 0
    /\ parsed = <<>>
    /\ runs = 1

Init == RunStart(MaxReadmeLen, MaxUsageLen) /\ FsIdle /\ UbIdle

\* CheckArgs with len(sys.argv) < 3 as the test
CheckArgs_TooFew ==
    /\ pc = "check_args"
    /\ IF Len(argv) < 3
       THEN /\ stdout' = Append(stdout, UsageLine)
            /\ status' = <<1>>
            /\ pc' = "exited"
       ELSE /\ pc' = "read"
            /\ UNCHANGED <<stdout, status>>
    /\ UNCHANGED <<argv, linesep, readme, before, content, error, reads,
                   writes, parsed, runs, fsVars, ubVars>>

\* lines 23-25: if len(sys.argv) != 3: print(usage); sys.exit(1)
CheckArgs ==
    /\ pc = "check_args"
    /\ IF Len(argv) # 3
       THEN /\ stdout' = Append(stdout, UsageLine)
            /\ status' = <<1>>
            /\ pc' = "exited"
       ELSE /\ pc' = "read"
            /\ UNCHANGED <<stdout, status>>
    /\ UNCHANGED <<argv, linesep, readme, before, content, error, reads,
                   writes, parsed, runs, fsVars, ubVars>>

\* lines 27-28: with open("README.md", "r") as file: content = file.read()
ReadFile ==
    /\ pc = "read"
    /\ content' = read_text(readme)
    /\ reads' = reads + 1
    /\ pc' = "update_binary"
    /\ UNCHANGED <<argv, linesep, readme, before, status, stdout, error,
                   writes, parsed, runs, fsVars, ubVars>>

\* line 27 when README.md cannot be opened for reading
ReadFileFails ==
    /\ pc = "read"
    /\ error' = "FileNotFoundError"
    /\ status' = <<1>>
    /\ pc' = "failed"
    /\ UNCHANGED <<argv, linesep, readme, before, content, stdout, reads,
                   writes, parsed, runs, fsVars, ubVars>>

\* Update that also writes README.md after the substitution
Update_WriteThrough(at, badge_name, i, next) ==
    /\ pc = at
    /\ parsed' = Append(parsed, i)
    /\ IF update_badge_ok(content, badge_name, argv[i + 1])
       THEN /\ content' = update_badge(content, badge_name, argv[i + 1])
            /\ readme' = write_text(content', linesep)
            /\ writes' = writes + 1
            /\ pc' = next
            /\ UNCHANGED <<error, status>>
       ELSE /\ error' = "ValueError"
            /\ status' = <<1>>
            /\ pc' = "failed"
            /\ UNCHANGED <<content, readme, writes>>
    /\ UNCHANGED <<argv, linesep, before, stdout, reads, runs, fsVars, ubVars>>

\* content = update_badge(content, badge_name, sys.argv[i]); the ValueError
\* of int() is not caught and ends the process
Update(at, badge_name, i, next) ==
    /\ pc = at
    /\ parsed' = Append(parsed, i)
    /\ IF update_badge_ok(content, badge_name, argv[i + 1])
       THEN /\ content' = update_badge(content, badge_name, argv[i + 1])
            /\ pc' = next
            /\ UNCHANGED <<error, status>>
       ELSE /\ error' = "ValueError"
            /\ status' = <<1>>
            /\ pc' = "failed"
            /\ UNCHANGED content
    /\ UNCHANGED <<argv, linesep, readme, before, stdout, reads, writes, runs,
                   fsVars, ubVars>>

\* line 30
UpdateBinary == Update("update_binary", "binary_size", 1, "update_wasm")

\* line 31 with sys.argv[1] in place of sys.argv[2]
UpdateWasm_FirstArg ==
    /\ pc = "update_wasm"
    /\ parsed' = Append(parsed, 2)
    /\ IF update_badge_ok(content, "wasm_size", argv[2])
       THEN /\ content' = update_badge(content, "wasm_size", argv[2])
            /\ pc' = "write"
            /\ UNCHANGED <<error, status>>
       ELSE /\ error' = "ValueError"
            /\ status' = <<1>>
            /\ pc' = "failed"
            /\ UNCHANGED content
    /\ UNCHANGED <<argv, linesep, readme, before, stdout, reads, writes, runs,
                   fsVars, ubVars>>

\* line 31
UpdateWasm == Update("update_wasm", "wasm_size", 2, "write")

\* lines 33-34: with open("README.md", "w") as file: file.write(content),
\* then the script ends with status 0
WriteFile ==
    /\ pc = "write"
    /\ readme' = write_text(content, linesep)
    /\ writes' = writes + 1
    /\ status' = <<0>>
    /\ pc' = "done"
    /\ UNCHANGED <<argv, linesep, before, content, stdout, error, reads,
                   parsed, runs, fsVars, ubVars>>

\* line 33 when README.md cannot be opened for writing
WriteFileFails ==
    /\ pc = "write"
    /\ error' = "PermissionError"
    /\ status' = <<1>>
    /\ pc' = "failed"
    /\ UNCHANGED <<argv, linesep, readme, before, content, stdout, reads,
                   writes, parsed, runs, fsVars, ubVars>>

Next ==
    \/ CheckArgs
    \/ ReadFile
    \/ ReadFileFails
    \/ UpdateBinary
    \/ UpdateWasm
    \/ WriteFile
    \/ WriteFileFails

Spec == Init /\ [][Next]_vars

(***************************************************************************)
(* A call of format_size with an integer or with its decimal string        *)
(***************************************************************************)
InitFormat ==
    /\ fs_size \in Sizes
    /\ fs_given = ""
    /\ fs_out = ""
    /\ RunIdle /\ UbIdle

\* format_size(n): int(n) is n
FormatInt ==
    /\ fs_given = ""
    /\ fs_given' = "int"
    /\ fs_out' = format_bytes(fs_size)
    /\ UNCHANGED <<fs_size, runVars, ubVars>>

\* format_size(str(n))
FormatStr ==
    /\ fs_given = ""
    /\ fs_given' = "str"
    /\ fs_out' = format_size(str(fs_size))
    /\ UNCHANGED <<fs_size, runVars, ubVars>>

NextFormat == FormatInt \/ FormatStr

SpecFormat == InitFormat /\ [][NextFormat]_vars

(***************************************************************************)
(* Calls of update_badge, each on the result of the one before             *)
(***************************************************************************)
MaxCalls == 2

InitBadge ==
    /\ ub_content \in DocsOver(Chunks, MaxDocLen)
    /\ ub_name \in BadgeNames
    /\ ub_size \in SizeArgs
    /\ ub_out = <<>>
    /\ ub_prev = <<>>
    /\ ub_calls = 0
    /\ ub_error = ""
    /\ RunIdle /\ FsIdle

Call ==
    /\ ub_calls < MaxCalls
    /\ ub_error = ""
    /\ ub_calls' = ub_calls + 1
    /\ LET input == IF ub_calls = 0 THEN ub_content ELSE ub_out
       IN  IF update_badge_ok(input, ub_name, ub_size)
           THEN /\ ub_out' = update_badge(input, ub_name, ub_size)
                /\ ub_prev' = input
                /\ UNCHANGED ub_error
           ELSE /\ ub_error' = "ValueError"
                /\ UNCHANGED <<ub_out, ub_prev>>
    /\ UNCHANGED <<ub_content, ub_name, ub_size, runVars, fsVars>>

NextBadge == Call

SpecBadge == InitBadge /\ [][NextBadge]_vars

(***************************************************************************)
(* Runs in a row with the same arguments on the same platform, and         *)
(* repeated calls of update_badge                                          *)
(***************************************************************************)
MaxRuns == 2

RunAgain ==
    /\ pc = "done"
    /\ runs < MaxRuns
    /\ runs' = runs + 1
    /\ before' = readme
    /\ content' = <<>>
    /\ pc' = "check_args"
    /\ status' = <<>>
    /\ stdout' = <<>>
    /\ error' = ""
    /\ reads' = 0
    /\ writes' = 0
    /\ parsed' = <<>>
    /\ UNCHANGED <<argv, linesep, readme, fsVars, ubVars>>

InitRepeat ==
    \/ RunStart(MaxRerunLen, MaxUsageLen) /\ FsIdle /\ UbIdle
    \/ InitBadge

NextRepeat == Next \/ RunAgain \/ Call

SpecRepeat == InitRepeat /\ [][NextRepeat]_vars

(***************************************************************************)
(* Properties.  What the documentation says of a result is written here    *)
(* without the operators that model the code: numerals come from ToString, *)
(* and the markers of a document are found by position.                    *)
(***************************************************************************)
Abs(n) == IF n < 0 THEN 0 - n ELSE n

\* h hundredths written with two decimals, then without trailing zero
\* decimals and without a trailing point
Numeral(h) ==
    LET whole  == ToString(h \div 100)
        tenth  == ToString((h % 100) \div 10)
        hundr  == ToString(h % 10)
    IN  IF h % 100 = 0 THEN whole
        ELSE IF h % 10 = 0 THEN whole \o "." \o tenth
        ELSE whole \o "." \o tenth \o hundr

DivisorOf(b) == IF b < 1000000 THEN 1000 ELSE 1000000

UnitOf(b) == IF b < 1000000 THEN " KB" ELSE " MB"

\* b / d in hundredths, rounded half up and rounded half to even
HalfUp(b, d) == (200 * b + d) \div (2 * d)

HalfEven(b, d) ==
    LET f == (100 * b) \div d
        r == (100 * b) % d
    IN  IF 2 * r < d THEN f
        ELSE IF 2 * r > d THEN f + 1
        ELSE IF f % 2 = 0 THEN f ELSE f + 1

\* the numbers of hundredths nearest to b / d: one, or two when b / d lies
\* halfway between them
NearestHundredths(b, d) ==
    { h \in {(100 * b) \div d, (100 * b) \div d + 1} : 2 * Abs(100 * b - h * d) <= d }

\* C1 as stated: format_size(b) is b/1000 (below 1,000,000) or b/1,000,000
\* rounded to two decimals, under either usual rounding of a halfway case,
\* stripped, with " KB" or " MB"
C1_RoundedQuotient ==
    fs_given # "" =>
        fs_out \in { Numeral(HalfUp(fs_size, DivisorOf(fs_size))) \o UnitOf(fs_size),
                     Numeral(HalfEven(fs_size, DivisorOf(fs_size))) \o UnitOf(fs_size) }

\* C1 amended: format_size(b), for b given as an integer or as its decimal
\* string, is a nearest two-decimal value of b/1000 (below 1,000,000) or of
\* b/1,000,000, stripped of trailing zero decimals and of a trailing point
\* but of no integer digit, with " KB" or " MB"; a quotient halfway
\* between two such values goes to either
C1_NearestHundredth ==
    fs_given # "" =>
        /\ fs_out \in { Numeral(h) \o UnitOf(fs_size) :
                          h \in NearestHundredths(fs_size, DivisorOf(fs_size)) }
        /\ fs_size = 0 => fs_out = "0 KB"
        /\ fs_size = 1000 => fs_out = "1 KB"
        /\ fs_size = 1500 => fs_out = "1.5 KB"
        /\ fs_size = 999999 => fs_out = "1000 KB"
        /\ fs_size = 1234000 => fs_out = "1.23 MB"
        /\ fs_size = 2000000 => fs_out = "2 MB"

C1_Witness ==
    /\ fs_given = "str" /\ fs_size = 1234000 /\ fs_out = "1.23 MB"

(***************************************************************************)
(* Markers of a document, by position                                      *)
(***************************************************************************)
\* the chunks the prefix pattern of a badge accepts
PatternPrefixes(badge_name) ==
    IF badge_name = "binary_size"
    THEN {"https://img.shields.io/badge/binary_size-",
          "https://img_shields.io/badge/binary_size-"}
    ELSE {"https://img.shields.io/badge/" \o badge_name \o "-"}

AnyPrefix == UNION { PatternPrefixes(n) : n \in BadgeNames }

\* chunk j is a "-blue" that ends a match: a prefix lies before it with
\* neither "-blue" nor a line feed between
Closes(d, badge_name, j) ==
    /\ d[j] = "-blue"
    /\ \E i \in 1..(j - 1) :
          /\ d[i] \in PatternPrefixes(badge_name)
          /\ \A k \in (i + 1)..(j - 1) : d[k] \notin {"-blue", "\n"}

\* the match that ends at j starts at the leftmost such prefix
StartOf(d, badge_name, j) ==
    CHOOSE i \in 1..(j - 1) :
        /\ d[i] \in PatternPrefixes(badge_name)
        /\ \A k \in (i + 1)..(j - 1) : d[k] \notin {"-blue", "\n"}
        /\ \A h \in 1..(i - 1) :
              ~ /\ d[h] \in PatternPrefixes(badge_name)
                /\ \A k \in (h + 1)..(j - 1) : d[k] \notin {"-blue", "\n"}

\* chunk k lies in the size field of a match
InField(d, badge_name, k) ==
    \E j \in (k + 1)..Len(d) :
        Closes(d, badge_name, j) /\ StartOf(d, badge_name, j) < k

NumMatches(d, badge_name) ==
    Cardinality({ j \in 1..Len(d) : Closes(d, badge_name, j) })

RECURSIVE Flatten(_)
Flatten(ss) == IF ss = <<>> THEN <<>> ELSE Head(ss) \o Flatten(Tail(ss))

\* d with the size field of every match replaced by the text f
Rewritten(d, badge_name, f) ==
    Flatten([ k \in 1..Len(d) |->
                IF InField(d, badge_name, k) THEN <<>>
                ELSE IF Closes(d, badge_name, k) THEN <<f, d[k]>>
                ELSE <<d[k]>> ])

\* the text of d outside the size fields of the markers of both badges
OutsideFields(d) ==
    Join(Rewritten(Rewritten(d, "binary_size", ""), "wasm_size", ""))

\* d holds the text prefix + anything + "-blue" for the literal prefix
HasMarker(d, badge_name) ==
    \E i \in 1..Len(d), j \in 1..Len(d) :
        i < j /\ d[i] = Prefix(badge_name) /\ d[j] = "-blue"

\* d holds a marker of the badge whose size field is the text f
Carries(d, badge_name, f) ==
    \E i \in 1..(Len(d) - 2) :
        d[i] = Prefix(badge_name) /\ d[i + 1] = f /\ d[i + 2] = "-blue"

(***************************************************************************)
(* C2 *)
(***************************************************************************)
\* C2 as stated: after a successful run every character of README.md
\* outside the size fields of the binary_size and wasm_size markers is as
\* it was before the run, in the same order
C2_OnlyFieldsChange ==
    (pc = "done" /\ status = <<0>>) => OutsideFields(readme) = OutsideFields(before)

(***************************************************************************)
(* C3 *)
(***************************************************************************)
\* C3 as stated: for a document holding one marker
\* https://img.shields.io/badge/<badge_name>-<old>-blue, whatever <old>
\* is up to the first "-blue", update_badge returns the document with
\* <old> replaced by format_size(size) and every other byte unchanged
C3_MarkerRewritten ==
    (ub_calls = 1 /\ ub_error = "") =>
        \A i \in 1..Len(ub_content), j \in 1..Len(ub_content) :
            ( /\ i < j
              /\ ub_content[i] = Prefix(ub_name)
              /\ ub_content[j] = "-blue"
              /\ \A k \in (i + 1)..(j - 1) : ub_content[k] # "-blue"
              /\ \A k \in 1..Len(ub_content) :
                    k # i => ub_content[k] # Prefix(ub_name) )
            => Join(ub_out) =
                 Join(SubSeq(ub_content, 1, i) \o <<format_size(ub_size)>>
                      \o SubSeq(ub_content, j, Len(ub_content)))

(***************************************************************************)
(* C4 *)
(***************************************************************************)
\* C4 as stated: update_badge with a valid size raises nothing, and on a
\* document without a marker https://img.shields.io/badge/<badge_name>-...-blue
\* it returns the document unchanged
C4_NoMarkerNoChange ==
    /\ (ub_calls = 1 /\ int_ok(ub_size)) => ub_error = ""
    /\ (ub_calls = 1 /\ ub_error = "" /\ ~HasMarker(ub_content, ub_name))
          => Join(ub_out) = Join(ub_content)

(***************************************************************************)
(* C5 *)
(***************************************************************************)
\* C5: with a number of positional arguments other than two the run prints
\* the usage line and exits with status 1, README.md neither read nor
\* written and no size parsed; the usage exit is taken in no other case
C5_UsageExit ==
    /\ Len(argv) # 3 =>
          /\ pc \in {"check_args", "exited"}
          /\ reads = 0 /\ writes = 0 /\ parsed = <<>> /\ readme = before
          /\ pc = "exited" =>
                status = <<1>> /\ stdout = <<UsageLine>> /\ error = ""
    /\ pc = "exited" => Len(argv) # 3

C5_Witness == pc = "exited" /\ Len(argv) = 4 /\ status = <<1>>

(***************************************************************************)
(* C6 *)
(***************************************************************************)
\* a size argument that is a decimal string
IsDecimal(arg) ==
    /\ arg # <<>>
    /\ \A i \in 1..Len(arg) :
          arg[i] \in {"0", "1", "2", "3", "4", "5", "6", "7", "8", "9"}

\* d holds a marker of the badge whose size field runs, free of line
\* breaks and of badge URL prefixes, up to its "-blue", and which no badge
\* URL prefix precedes unless a "-blue" or a line break lies between
PlainMarker(d, badge_name) ==
    \E i \in 1..Len(d), j \in 1..Len(d) :
        /\ i < j
        /\ d[i] = Prefix(badge_name)
        /\ d[j] = "-blue"
        /\ \A k \in (i + 1)..(j - 1) :
              d[k] \notin (AnyPrefix \cup {"-blue", "\n", "\r"})
        /\ \A h \in 1..(i - 1) :
              d[h] \in AnyPrefix =>
                 \E k \in (h + 1)..(i - 1) : d[k] \in {"-blue", "\n", "\r"}

\* a run with two decimal arguments ends with status 0 unless README.md
\* cannot be opened
C6_ValidArgsSucceed ==
    (Len(argv) = 3 /\ IsDecimal(argv[2]) /\ IsDecimal(argv[3])) =>
        /\ pc = "done" => status = <<0>>
        /\ pc = "failed" => error \in {"FileNotFoundError", "PermissionError"}
        /\ pc # "exited"

NotAnInteger(arg) ==
    \E i \in 1..Len(arg) :
        arg[i] \notin {"0", "1", "2", "3", "4", "5", "6", "7", "8", "9",
                       "+", "-", "_", " ", "\t", "\n", "\r"}

\* C7: once the run has applied int() to an argument that is no integer it
\* has failed with the uncaught ValueError, status 1 and nothing written,
\* whether or not the document holds the badge's marker; so a run that
\* reaches the write or ends with status 0 had two integers
C7_ParseErrorEndsRun ==
    /\ \A i \in 1..2 :
          ( /\ Len(argv) = 3
            /\ NotAnInteger(argv[i + 1])
            /\ \E k \in 1..Len(parsed) : parsed[k] = i )
          => /\ pc = "failed" /\ error = "ValueError"
             /\ status = <<1>> /\ writes = 0
    /\ pc \in {"write", "done"} =>
          ~NotAnInteger(argv[2]) /\ ~NotAnInteger(argv[3])

C7_Witness ==
    /\ pc = "failed" /\ error = "ValueError" /\ parsed = <<1, 2>>
    /\ NotAnInteger(argv[3])
    /\ NumMatches(content, "wasm_size") = 0
    /\ NumMatches(content, "binary_size") = 1

(***************************************************************************)
(* C8 *)
(***************************************************************************)
\* C8: update_badge replaces the size field of every match of the badge's
\* pattern, leftmost first and none overlapping another, by the same
\* formatted size, and changes nothing else
C8_EveryMatchRewritten ==
    (ub_calls >= 1 /\ ub_error = "") =>
        /\ ub_out = Rewritten(ub_prev, ub_name, format_size(ub_size))
        /\ Cardinality({ k \in 1..Len(ub_out) : ub_out[k] = format_size(ub_size) })
              = NumMatches(ub_prev, ub_name)

C8_Witness ==
    /\ ub_calls = 1 /\ ub_error = ""
    /\ NumMatches(ub_content, ub_name) = 2
    /\ ub_out # ub_content

(***************************************************************************)
(* C9 *)
(***************************************************************************)
\* C9: a run writes README.md at most once, and only after both
\* substitutions; a run that failed has written nothing, README.md being
\* as it was before the run
C9_WriteOnlyAtEnd ==
    /\ writes <= 1
    /\ writes = 1 => (pc = "done" /\ parsed = <<1, 2>> /\ reads = 1)
    /\ writes = 0 => readme = before
    /\ pc = "failed" => (writes = 0 /\ readme = before)

C9_Witness ==
    /\ pc = "failed" /\ error = "ValueError" /\ parsed = <<1, 2>>
    /\ content # read_text(before)
    /\ readme = before

(***************************************************************************)
(* C10 *)
(***************************************************************************)
\* C10: update_badge applied to its own result, with the same badge name
\* and size, returns it unchanged; a second run with the same arguments
\* leaves README.md as the first run left it
C10_Idempotent ==
    /\ (ub_calls >= 2 /\ ub_error = "") => ub_out = ub_prev
    /\ (runs >= 2 /\ pc = "done") => readme = before

C10_Witness ==
    /\ runs = 2 /\ pc = "done"
    /\ Carries(readme, "binary_size", format_size(argv[2]))
    /\ \E k \in 1..Len(readme) : readme[k] = "\r"

====
